---- MODULE Spec2Model ----
(***************************************************************************)
(* NetworkManager of DeepPhysX (networks/core/network_manager.py).         *)
(*                                                                         *)
(* Three specifications share the module:                                  *)
(*   Spec          saving and loading of parameter sets in network_dir     *)
(*   SpecExchange  link_clients and compute_online_prediction on the       *)
(*                 Exchange table                                          *)
(*   SpecNorm      normalize_data as a pure function                       *)
(* File names are sequences of one-character strings, so that the          *)
(* substring filters and the sort of load_network are computed as Python   *)
(* computes them.  Numbers are floating-point numbers of FPrecision        *)
(* significant bits (see the arithmetic section).                          *)
(***************************************************************************)
EXTENDS Integers, Sequences, FiniteSets, TLC

VARIABLES
    \* ---- network_dir and the manager's counters
    files,             \* names of the files of network_dir (os.listdir)
    saved_counter,     \* self.saved_counter
    save_every_epoch,  \* self.save_every_epoch
    is_training,       \* self.is_training
    alive,             \* a manager exists and close() has not deleted its network
    op,                \* the last operation performed
    save_calls,        \* intermediate save_network calls since construction
    written,           \* the file written by the last save_network
    which,             \* which_network of the last load_network
    networks_list,     \* the local networks_list of the last load_network
    loaded,            \* the path given to network.load_parameters
    raised,            \* the exception the last operation raised
    warned,            \* whether load_network printed its fallback message
    \* ---- the Exchange table
    exchange,          \* rows of the Exchange table, by line id
    exchange_fields,   \* the fields created in the Exchange table
    first_nb,          \* nb_clients of the first sizing link_clients call
    other_nb,          \* a later link_clients call gave another nb_clients
    instance,          \* instance_id of the last compute_online_prediction
    norm_arg,          \* normalization of the last prediction made
    fed,               \* what the last prediction fed to the network
    data_pred,         \* what the network returned for it
    ex_op,             \* the last operation on the Exchange table
    ex_raised,         \* the exception that operation raised
    \* ---- normalize_data
    data,              \* the array given to normalize_data
    normalization,     \* the coefficients [mean, scale]
    reverse_first,     \* the order of the two calls
    stage,             \* how many of the two calls have run
    out1,              \* result of the first call
    out2               \* result of the second call

fsVars == <<files, saved_counter, save_every_epoch, is_training, alive, op,
            save_calls, written, which, networks_list, loaded, raised, warned>>
exVars == <<exchange, exchange_fields, first_nb, other_nb, instance, norm_arg,
            fed, data_pred, ex_op, ex_raised>>
nmVars == <<data, normalization, reverse_first, stage, out1, out2>>
vars == <<fsVars, exVars, nmVars>>

----------------------------------------------------------------------------
(* Bounds of the model *)

\* intermediate saves are cut off once saved_counter reaches this
MaxCounter == 11
\* save_every_epoch ranges over -1 .. MaxCadence
MaxCadence == 3
\* which_network ranges over -MaxWhich .. MaxWhich
MaxWhich == 4
\* significant bits of a floating-point number (53 in numpy's float64)
FPrecision == 4
\* largest exponent of a floating-point number (1023 in numpy's float64)
FMaxExp == 1
\* normalization coefficients range over the numbers of magnitude <= MaxCoef
MaxCoef == 3
\* arrays given to normalize_data have 1 .. MaxLen elements
MaxLen == 2
\* link_clients is given 0 .. MaxClients clients
MaxClients == 2

----------------------------------------------------------------------------
(* Strings *)

\* the characters used in file names, in code-point order
Chars == <<".", "0", "1", "2", "3", "4", "5", "6", "7", "8", "9", "_",
           "a", "b", "c", "d", "e", "f", "h", "k", "l", "n", "o", "p", "r",
           "s", "t", "u", "w">>

\* ord(c), up to an order-preserving renumbering
Ord == [c \in {Chars[i] : i \in 1..Len(Chars)} |->
           CHOOSE i \in 1..Len(Chars) : Chars[i] = c]

\* str.__lt__: the first differing character decides, then the length
StrLess(a, b) ==
    LET n == IF Len(a) < Len(b) THEN Len(a) ELSE Len(b)
        d == {i \in 1..n : a[i] # b[i]}
    IN  IF d = {} THEN Len(a) < Len(b)
        ELSE LET i == CHOOSE k \in d : \A l \in d : k <= l
             IN  Ord[a[i]] < Ord[b[i]]

\* str.__contains__ / the `in` operator on strings
Contains(s, sub) ==
    \E i \in 1..(Len(s) - Len(sub) + 1) :
        \A j \in 1..Len(sub) : s[i + j - 1] = sub[j]

\* sorted() of a collection of distinct strings
RECURSIVE Sorted(_)
Sorted(S) ==
    IF S = {} THEN <<>>
    ELSE LET m == CHOOSE x \in S : \A y \in S \ {x} : StrLess(x, y)
         IN  <<m>> \o Sorted(S \ {m})

\* '{}'.format(n) for n >= 0
RECURSIVE Format(_)
Format(n) ==
    IF n < 10 THEN <<Chars[n + 2]>>
    ELSE Format(n \div 10) \o <<Chars[(n % 10) + 2]>>

\* the orders in which listdir may give the files of S
RECURSIVE Orderings(_)
Orderings(S) ==
    IF S = {} THEN {<<>>}
    ELSE UNION {{<<x>> \o t : t \in Orderings(S \ {x})} : x \in S}

\* list[i] of Python: the element, or <<>> where Python raises IndexError
InRange(l, i) == -Len(l) <= i /\ i < Len(l)
PyIndex(l, i) == IF i >= 0 THEN l[i + 1] ELSE l[Len(l) + i + 1]

----------------------------------------------------------------------------
(* File names *)

\* session.split(sep)[-1] for the default session 'sessions/default'
session_name == <<"d", "e", "f", "a", "u", "l", "t">>

\* self.network_template_name.format(k)
network_template_name(k) ==
    session_name \o <<"_", "n", "e", "t", "w", "o", "r", "k", "_">> \o Format(k)

backup_network == <<"b", "a", "c", "k", "u", "p", "_", "n", "e", "t", "w", "o", "r", "k">>
networks == <<"n", "e", "t", "w", "o", "r", "k", "s">>

\* the substrings the code filters on
NETWORK_ == <<"n", "e", "t", "w", "o", "r", "k", "_">>
NETWORKS_DOT == <<"n", "e", "t", "w", "o", "r", "k", "s", ".">>
BACKUP == <<"b", "a", "c", "k", "u", "p">>

\* network.save_parameters(path) writes the file path + extension
Extension == <<".", "p", "t", "h">>
save_parameters(dir, path) == dir \cup {path \o Extension}

NoFile == <<>>

----------------------------------------------------------------------------
(* load_network *)

\* load_network without its single-file branch (lines 134-135)
load_network_no_single(dir, which_network, last_saved_network) ==
    LET nl == Sorted({f \in dir : Contains(f, NETWORK_)}) \o last_saved_network
        w  == IF which_network > Len(nl) THEN -1 ELSE which_network
    IN  IF Len(nl) = 0
        THEN [networks_list |-> nl, raised |-> "FileNotFoundError",
              warned |-> FALSE, loaded |-> NoFile]
        ELSE IF InRange(nl, w)
        THEN [networks_list |-> nl, raised |-> "none",
              warned |-> (which_network > Len(nl)), loaded |-> PyIndex(nl, w)]
        ELSE [networks_list |-> nl, raised |-> "IndexError",
              warned |-> (which_network > Len(nl)), loaded |-> NoFile]

\* The result of load_network(which_network) on the files dir, listdir
\* giving the files of the last comprehension in the order last_saved_network.
load_network(dir, which_network, last_saved_network) ==
    LET nl == Sorted({f \in dir : Contains(f, NETWORK_)}) \o last_saved_network
        w  == IF Len(nl) = 1 THEN 0
              ELSE IF which_network > Len(nl) THEN -1
              ELSE which_network
    IN  IF Len(nl) = 0
        THEN [networks_list |-> nl, raised |-> "FileNotFoundError",
              warned |-> FALSE, loaded |-> NoFile]
        ELSE IF InRange(nl, w)
        THEN [networks_list |-> nl, raised |-> "none",
              warned |-> (Len(nl) # 1 /\ which_network > Len(nl)),
              loaded |-> PyIndex(nl, w)]
        ELSE [networks_list |-> nl, raised |-> "IndexError",
              warned |-> (Len(nl) # 1 /\ which_network > Len(nl)),
              loaded |-> NoFile]

----------------------------------------------------------------------------
(* save_network *)

\* save_network with the counter incremented before the cadence is tested
save_network_counts(dir, counter, every, last_save) ==
    IF last_save
    THEN [files |-> save_parameters(dir, networks), saved_counter |-> counter,
          written |-> networks \o Extension]
    ELSE LET kept == {f \in dir : ~Contains(f, BACKUP)}
             c == counter + 1
         IN  IF every > 0 /\ c % every # 0
             THEN [files |-> save_parameters(kept, network_template_name(c)),
                   saved_counter |-> c,
                   written |-> network_template_name(c) \o Extension]
             ELSE [files |-> save_parameters(kept, backup_network),
                   saved_counter |-> c,
                   written |-> backup_network \o Extension]

\* The directory, the counter and the file written by save_network(last_save).
save_network(dir, counter, every, last_save) ==
    IF last_save
    THEN [files |-> save_parameters(dir, networks), saved_counter |-> counter,
          written |-> networks \o Extension]
    ELSE LET kept == {f \in dir : ~Contains(f, BACKUP)}
         IN  IF every > 0
             THEN LET c == counter + 1
                  IN  IF c % every # 0
                      THEN [files |-> save_parameters(kept, network_template_name(c)),
                            saved_counter |-> c,
                            written |-> network_template_name(c) \o Extension]
                      ELSE [files |-> save_parameters(kept, backup_network),
                            saved_counter |-> c,
                            written |-> backup_network \o Extension]
             ELSE [files |-> save_parameters(kept, backup_network),
                   saved_counter |-> counter,
                   written |-> backup_network \o Extension]

----------------------------------------------------------------------------
(* Floating-point arithmetic of numpy arrays                               *)
(*                                                                         *)
(* A finite number is an integer with at most FPrecision significant bits  *)
(* and magnitude at most FMax; the smallest positive number is 1 (the      *)
(* subnormal spacing).  Every operation rounds the exact result to the     *)
(* nearest number, ties to even, and overflows to an infinity.             *)

RECURSIVE Pow2(_)
Pow2(n) == IF n = 0 THEN 1 ELSE 2 * Pow2(n - 1)

FMax == (Pow2(FPrecision) - 1) * Pow2(FMaxExp)
PosInf == FMax + 1
NegInf == -PosInf
NaN == FMax + 2

Abs(x) == IF x < 0 THEN -x ELSE x
Sign(x) == IF x < 0 THEN -1 ELSE 1
Finite(x) == Abs(x) <= FMax

\* the spacing of the numbers around a / d, for a >= 0 and d > 0
RECURSIVE Spacing(_, _, _)
Spacing(a, d, g) ==
    IF a < d * g * Pow2(FPrecision) THEN g ELSE Spacing(a, d, 2 * g)

\* num / den rounded to the nearest number, ties to even, for den > 0
Round(num, den) ==
    LET a == Abs(num)
        g == Spacing(a, den, 1)
        k == a \div (den * g)
        r == a - k * den * g
        m == IF 2 * r < den * g THEN k
             ELSE IF 2 * r > den * g THEN k + 1
             ELSE IF k % 2 = 0 THEN k ELSE k + 1
    IN  IF m * g > FMax THEN Sign(num) * PosInf ELSE Sign(num) * m * g

\* the finite numbers
Floats == {x \in -FMax..FMax : Round(x, 1) = x}

FNeg(a) == IF a = NaN THEN NaN ELSE -a

FAdd(a, b) ==
    IF a = NaN \/ b = NaN THEN NaN
    ELSE IF ~Finite(a) THEN (IF b = -a THEN NaN ELSE a)
    ELSE IF ~Finite(b) THEN b
    ELSE Round(a + b, 1)

FSub(a, b) == FAdd(a, FNeg(b))

FMul(a, b) ==
    IF a = NaN \/ b = NaN THEN NaN
    ELSE IF ~Finite(a) \/ ~Finite(b)
    THEN (IF a = 0 \/ b = 0 THEN NaN ELSE Sign(a) * Sign(b) * PosInf)
    ELSE Round(a * b, 1)

FDiv(a, b) ==
    IF a = NaN \/ b = NaN THEN NaN
    ELSE IF ~Finite(a) THEN (IF ~Finite(b) THEN NaN ELSE Sign(a) * Sign(b) * PosInf)
    ELSE IF ~Finite(b) THEN 0
    ELSE IF b = 0 THEN (IF a = 0 THEN NaN ELSE Sign(a) * PosInf)
    ELSE Round(a * Sign(b), Abs(b))

\* an ndarray: its shape and its elements in row-major order
Array(shape, flat) == [shape |-> shape, flat |-> flat]
NoArray == Array(<<>>, <<>>)

\* the arithmetic operators of an array
FApply(o, a, b) ==
    CASE o = "+" -> FAdd(a, b)
      [] o = "-" -> FSub(a, b)
      [] o = "*" -> FMul(a, b)
      [] o = "/" -> FDiv(a, b)

\* array (o) scalar gives a new array of the same shape
Elementwise(o, arr, scalar) ==
    Array(arr.shape, [i \in 1..Len(arr.flat) |-> FApply(o, arr.flat[i], scalar)])

----------------------------------------------------------------------------
(* normalize_data *)

\* normalize_data done in place (data -= mean; data /= scale; return data)
normalize_data_in_place(arr, coef, reverse) ==
    LET r == IF reverse
             THEN Elementwise("+", Elementwise("*", arr, coef[2]), coef[1])
             ELSE Elementwise("/", Elementwise("-", arr, coef[1]), coef[2])
    IN  [ret |-> r, data |-> r, normalization |-> coef]

\* normalize_data(data, normalization, reverse): the array returned, and the
\* two arguments as the call leaves them
normalize_data(arr, coef, reverse) ==
    [ret |-> IF reverse
             THEN Elementwise("+", Elementwise("*", arr, coef[2]), coef[1])
             ELSE Elementwise("/", Elementwise("-", arr, coef[1]), coef[2]),
     data |-> arr,
     normalization |-> coef]

----------------------------------------------------------------------------
(* The Exchange table of the DatabaseHandler *)

\* a field no value was written to (None)
None == NoArray

\* create_fields(fields, exchange=True): the fields of the table, or the error
create_fields(table, table_fields, new_fields) ==
    IF Len(table) > 0
    THEN [fields |-> table_fields, raised |-> "SchemaError"]
    ELSE [fields |-> table_fields \cup new_fields, raised |-> "none"]

\* add_data(exchange=True, data={}): a new line, every field empty
add_data(table, table_fields) ==
    Append(table, [f \in table_fields \cup {"id"} |->
                      IF f = "id" THEN Len(table) + 1 ELSE None])

\* get_line(table_name='Exchange', fields, line_id) once line_id is known to exist
get_line(table, fields, line_id) ==
    [f \in fields \cup {"id"} |-> table[line_id][f]]

\* update(table_name='Exchange', data, line_id)
update(table, payload, line_id) ==
    [table EXCEPT ![line_id] =
        [f \in DOMAIN table[line_id] |->
            IF f \in DOMAIN payload THEN payload[f] ELSE table[line_id][f]]]

----------------------------------------------------------------------------
(* The network's fields *)

net_fields == {"input"}
pred_fields == {"prediction"}
pred_norm_fields == [f \in pred_fields |-> "ground_truth"]
\* the field a worker keeps for itself in its line
WorkerField == "step"

\* an Optional argument: <<>> is None, <<v>> is the value v
NoneArg == <<>>
Some(v) == <<v>>

\* array([a]): a with a leading dimension of one
Batch(a) == Array(<<1>> \o a.shape, a.flat)
\* a[0] for an array whose leading dimension is one
First(a) == Array(Tail(a.shape), a.flat)
\* a.reshape(-1)
Flatten(a) == Array(<<Len(a.flat)>>, a.flat)

----------------------------------------------------------------------------
(* link_clients *)

RECURSIVE AddLines(_, _, _)
AddLines(table, table_fields, n) ==
    IF n <= 0 THEN table
    ELSE AddLines(add_data(table, table_fields), table_fields, n - 1)

\* link_clients with one line too many (range(nb_clients + 1))
link_clients_one_more(table, table_fields, nb_clients) ==
    IF nb_clients = NoneArg
    THEN [exchange |-> table, fields |-> table_fields, raised |-> "none"]
    ELSE LET c == create_fields(table, table_fields, net_fields \cup pred_fields)
         IN  IF c.raised # "none"
             THEN [exchange |-> table, fields |-> table_fields, raised |-> c.raised]
             ELSE [exchange |-> AddLines(table, c.fields, nb_clients[1] + 1),
                   fields |-> c.fields, raised |-> "none"]

\* link_clients(nb_clients): the table, its fields and the exception raised
link_clients(table, table_fields, nb_clients) ==
    IF nb_clients = NoneArg
    THEN [exchange |-> table, fields |-> table_fields, raised |-> "none"]
    ELSE LET c == create_fields(table, table_fields, net_fields \cup pred_fields)
         IN  IF c.raised # "none"
             THEN [exchange |-> table, fields |-> table_fields, raised |-> c.raised]
             ELSE [exchange |-> AddLines(table, c.fields, nb_clients[1]),
                   fields |-> c.fields, raised |-> "none"]

----------------------------------------------------------------------------
(* compute_online_prediction *)

\* the sample given to the network: each field batched and, with
\* coefficients under its name, normalized
Sample(line, coefs) ==
    [f \in DOMAIN line \ {"id"} |->
        IF f \in DOMAIN coefs
        THEN normalize_data(Batch(line[f]), coefs[f], FALSE).ret
        ELSE Batch(line[f])]

\* the result fields with the prediction normalized instead of un-normalized
Prediction_not_reversed(net_out, coefs) ==
    [f \in DOMAIN net_out |->
        IF pred_norm_fields[f] \in DOMAIN coefs
        THEN normalize_data(First(net_out[f]), coefs[pred_norm_fields[f]], FALSE).ret
        ELSE First(net_out[f])]

\* the result fields: each field of the network's output without its batch
\* dimension and, with coefficients under its reverse-normalization name,
\* un-normalized.  The array reshape(-1) returns is not assigned, so the
\* field keeps the array a.
Prediction(net_out, coefs) ==
    [f \in DOMAIN net_out |->
        LET a == IF pred_norm_fields[f] \in DOMAIN coefs
                 THEN normalize_data(First(net_out[f]),
                                     coefs[pred_norm_fields[f]], TRUE).ret
                 ELSE First(net_out[f])
            reshaped == Flatten(a)
        IN  a]

\* compute_online_prediction writing the sample back with the prediction
compute_online_prediction_writes_sample(table, instance_id, norm, net_out) ==
    LET coefs == IF norm = NoneArg THEN <<>> ELSE norm[1]
        failed(e) == [exchange |-> table, fed |-> <<>>, raised |-> e]
    IN  IF instance_id \notin 1..Len(table) THEN failed("LookupError")
        ELSE LET line == get_line(table, net_fields, instance_id)
             IN  IF \E f \in net_fields : line[f] = None THEN failed("TypeError")
                 ELSE [exchange |-> update(table,
                                           Prediction(net_out, coefs) @@ Sample(line, coefs),
                                           instance_id),
                       fed |-> Sample(line, coefs),
                       raised |-> "none"]

\* compute_online_prediction(instance_id, normalization), the network and the
\* hooks of the data transformation returning net_out for the sample:
\* the table, what was fed to the network, and the exception raised.
\* A line whose input was never written holds None, which neither
\* normalize_data nor the conversion to a tensor accepts.
compute_online_prediction(table, instance_id, norm, net_out) ==
    LET coefs == IF norm = NoneArg THEN <<>> ELSE norm[1]
        failed(e) == [exchange |-> table, fed |-> <<>>, raised |-> e]
    IN  IF instance_id \notin 1..Len(table) THEN failed("LookupError")
        ELSE LET line == get_line(table, net_fields, instance_id)
             IN  IF \E f \in net_fields : line[f] = None THEN failed("TypeError")
                 ELSE [exchange |-> update(table, Prediction(net_out, coefs), instance_id),
                       fed |-> Sample(line, coefs),
                       raised |-> "none"]

----------------------------------------------------------------------------
(* Values the variables of the other specifications rest at *)

ExchangeIdle ==
    /\ exchange = <<>>
    /\ exchange_fields = {}
    /\ first_nb = -1
    /\ other_nb = FALSE
    /\ instance = 0
    /\ norm_arg = <<>>
    /\ fed = <<>>
    /\ data_pred = <<>>
    /\ ex_op = "init"
    /\ ex_raised = "none"

NormIdle ==
    /\ data = NoArray
    /\ normalization = <<0, 1>>
    /\ reverse_first = FALSE
    /\ stage = 0
    /\ out1 = NoArray
    /\ out2 = NoArray

ManagerIdle ==
    /\ files = {}
    /\ saved_counter = 0
    /\ save_every_epoch = 0
    /\ is_training = TRUE
    /\ alive = TRUE
    /\ op = "init"
    /\ save_calls = 0
    /\ written = NoFile
    /\ which = 0
    /\ networks_list = <<>>
    /\ loaded = NoFile
    /\ raised = "none"
    /\ warned = FALSE

----------------------------------------------------------------------------
(* Saving and loading: the specification Spec *)

\* __init__ with pipeline = 'training' and no network_dir to copy: create_dir
\* gives a new, empty networks directory
Init ==
    /\ files = {}
    /\ saved_counter = 0
    /\ save_every_epoch \in -1..MaxCadence
    /\ is_training = TRUE
    /\ alive = TRUE
    /\ op = "init"
    /\ save_calls = 0
    /\ written = NoFile
    /\ which = 0
    /\ networks_list = <<>>
    /\ loaded = NoFile
    /\ raised = "none"
    /\ warned = FALSE
    /\ ExchangeIdle
    /\ NormIdle

NoLoad ==
    /\ which' = 0
    /\ networks_list' = <<>>
    /\ loaded' = NoFile
    /\ warned' = FALSE

\* save_network(last_save)
SaveNetwork(last_save) ==
    /\ alive
    /\ ~last_save => save_calls < MaxCounter
    /\ LET r == save_network(files, saved_counter, save_every_epoch, last_save)
       IN  /\ files' = r.files
           /\ saved_counter' = r.saved_counter
           /\ written' = r.written
    /\ op' = IF last_save THEN "save_final" ELSE "save_intermediate"
    /\ save_calls' = IF last_save THEN save_calls ELSE save_calls + 1
    /\ raised' = "none"
    /\ NoLoad
    /\ UNCHANGED <<save_every_epoch, is_training, alive>>

\* load_network(which_network)
LoadNetwork(which_network) ==
    /\ alive
    /\ \E last \in Orderings({f \in files : Contains(f, NETWORKS_DOT)}) :
         LET r == load_network(files, which_network, last)
         IN  /\ networks_list' = r.networks_list
             /\ loaded' = r.loaded
             /\ raised' = r.raised
             /\ warned' = r.warned
    /\ which' = which_network
    /\ op' = "load"
    /\ written' = NoFile
    /\ UNCHANGED <<files, saved_counter, save_every_epoch, is_training, alive,
                   save_calls>>

\* close()
Close ==
    /\ alive
    /\ IF is_training
       THEN LET r == save_network(files, saved_counter, save_every_epoch, TRUE)
            IN  /\ files' = r.files
                /\ saved_counter' = r.saved_counter
                /\ written' = r.written
       ELSE UNCHANGED <<files, saved_counter>> /\ written' = NoFile
    /\ alive' = FALSE
    /\ op' = "close"
    /\ raised' = "none"
    /\ NoLoad
    /\ UNCHANGED <<save_every_epoch, is_training, save_calls>>

\* __init__ with another pipeline than 'training', on the session a closed
\* manager leaves: the counters start again and the parameters are loaded;
\* no manager exists if load_network raises
OpenPrediction(which_network) ==
    /\ ~alive
    /\ \E last \in Orderings({f \in files : Contains(f, NETWORKS_DOT)}) :
         LET r == load_network(files, which_network, last)
         IN  /\ networks_list' = r.networks_list
             /\ loaded' = r.loaded
             /\ raised' = r.raised
             /\ warned' = r.warned
             /\ alive' = (r.raised = "none")
    /\ which' = which_network
    /\ saved_counter' = 0
    /\ save_calls' = 0
    /\ is_training' = FALSE
    /\ op' = "load"
    /\ written' = NoFile
    /\ UNCHANGED <<files, save_every_epoch>>

Next ==
    \/ \E last_save \in BOOLEAN : SaveNetwork(last_save) /\ UNCHANGED <<exVars, nmVars>>
    \/ \E w \in -MaxWhich..MaxWhich : LoadNetwork(w) /\ UNCHANGED <<exVars, nmVars>>
    \/ Close /\ UNCHANGED <<exVars, nmVars>>
    \/ \E w \in -MaxWhich..MaxWhich : OpenPrediction(w) /\ UNCHANGED <<exVars, nmVars>>

Spec == Init /\ [][Next]_vars

----------------------------------------------------------------------------
(* normalize_data as a pure function: the specification SpecNorm *)

Coefficients == {x \in Floats : Abs(x) <= MaxCoef}

\* the array of n elements x, -x, x, ...
SampleArray(x, n) == Array(<<n>>, [i \in 1..n |-> IF i % 2 = 1 THEN x ELSE -x])

InitNorm ==
    /\ \E x \in Floats, n \in 1..MaxLen : data = SampleArray(x, n)
    /\ normalization \in Coefficients \X Coefficients
    /\ reverse_first \in BOOLEAN
    /\ stage = 0
    /\ out1 = NoArray
    /\ out2 = NoArray
    /\ ManagerIdle
    /\ ExchangeIdle

\* out1 = normalize_data(data, normalization, reverse = reverse_first)
FirstCall ==
    /\ stage = 0
    /\ LET r == normalize_data(data, normalization, reverse_first)
       IN  /\ out1' = r.ret
           /\ data' = r.data
           /\ normalization' = r.normalization
    /\ stage' = 1
    /\ UNCHANGED <<reverse_first, out2>>

\* out2 = normalize_data(out1, normalization, reverse = not reverse_first)
SecondCall ==
    /\ stage = 1
    /\ LET r == normalize_data(out1, normalization, ~reverse_first)
       IN  /\ out2' = r.ret
           /\ out1' = r.data
           /\ normalization' = r.normalization
    /\ stage' = 2
    /\ UNCHANGED <<reverse_first, data>>

NextNorm ==
    \/ FirstCall /\ UNCHANGED <<fsVars, exVars>>
    \/ SecondCall /\ UNCHANGED <<fsVars, exVars>>

SpecNorm == InitNorm /\ [][NextNorm]_vars

----------------------------------------------------------------------------
(* The Exchange table: the specification SpecExchange *)

\* what workers write as network input
WorkerInputs == {Array(<<2>>, <<7, 4>>)}
\* what the network and the transformation hooks return for a sample
NetOutputs == {[f \in pred_fields |-> Array(<<1, 1>>, <<3>>)],
               [f \in pred_fields |-> Array(<<1, 1, 2>>, <<3, 5>>)]}
\* the normalization arguments given to compute_online_prediction
NormArgs == {NoneArg,
             Some("input" :> <<1, 2>>),
             Some("ground_truth" :> <<1, 2>>),
             Some(("input" :> <<1, 2>>) @@ ("ground_truth" :> <<1, 2>>))}
NbClients == {NoneArg} \cup {Some(n) : n \in 0..MaxClients}

\* a fresh Exchange table, holding the field the workers keep for themselves
InitExchange ==
    /\ exchange = <<>>
    /\ exchange_fields = {WorkerField}
    /\ first_nb = -1
    /\ other_nb = FALSE
    /\ instance = 0
    /\ norm_arg = NoneArg
    /\ fed = <<>>
    /\ data_pred = <<>>
    /\ ex_op = "init"
    /\ ex_raised = "none"
    /\ ManagerIdle
    /\ NormIdle

NoPrediction ==
    /\ instance' = 0
    /\ norm_arg' = NoneArg
    /\ fed' = <<>>
    /\ data_pred' = <<>>

\* link_clients(nb_clients)
LinkClients(nb_clients) ==
    /\ LET r == link_clients(exchange, exchange_fields, nb_clients)
       IN  /\ exchange' = r.exchange
           /\ exchange_fields' = r.fields
           /\ ex_raised' = r.raised
           /\ first_nb' = IF first_nb = -1 /\ nb_clients # NoneArg /\ r.raised = "none"
                          THEN nb_clients[1] ELSE first_nb
    /\ other_nb' = (other_nb \/ (first_nb # -1 /\ nb_clients # NoneArg
                                    /\ nb_clients[1] # first_nb))
    /\ ex_op' = "link_clients"
    /\ NoPrediction

\* the worker of line i writes its network input and its own field
WorkerWrite(i, a) ==
    /\ i \in 1..Len(exchange)
    /\ exchange' = update(exchange,
                          [f \in net_fields |-> a] @@ (WorkerField :> Array(<<1>>, <<1>>)),
                          i)
    /\ ex_op' = "worker"
    /\ ex_raised' = "none"
    /\ NoPrediction
    /\ UNCHANGED <<exchange_fields, first_nb, other_nb>>

\* compute_online_prediction(instance_id, normalization)
ComputeOnlinePrediction(instance_id, norm, net_out) ==
    /\ LET r == compute_online_prediction(exchange, instance_id, norm, net_out)
       IN  /\ exchange' = r.exchange
           /\ fed' = r.fed
           /\ ex_raised' = r.raised
           /\ data_pred' = IF r.raised = "none" THEN net_out ELSE <<>>
           /\ norm_arg' = IF r.raised = "none" THEN norm ELSE NoneArg
    /\ instance' = instance_id
    /\ ex_op' = "compute_online_prediction"
    /\ UNCHANGED <<exchange_fields, first_nb, other_nb>>

NextExchange ==
    \/ \E nb \in NbClients : LinkClients(nb) /\ UNCHANGED <<fsVars, nmVars>>
    \/ \E i \in 1..MaxClients, a \in WorkerInputs :
          WorkerWrite(i, a) /\ UNCHANGED <<fsVars, nmVars>>
    \/ \E i \in 1..(MaxClients + 1), norm \in NormArgs, net_out \in NetOutputs :
          ComputeOnlinePrediction(i, norm, net_out) /\ UNCHANGED <<fsVars, nmVars>>

SpecExchange == InitExchange /\ [][NextExchange]_vars

----------------------------------------------------------------------------
(* Claims about saving and loading, checked under Spec *)

terminal_file == networks \o Extension
backup_file == backup_network \o Extension
numbered_file(k) == network_template_name(k) \o Extension

\* the counters of the numbered snapshots of dir
NumberedCounters(dir) == {k \in 1..(MaxCounter + 1) : numbered_file(k) \in dir}
\* the parameter files load_network is meant to choose from
Snapshots(dir) ==
    {numbered_file(k) : k \in NumberedCounters(dir)} \cup (dir \cap {terminal_file})
BackupFiles(dir) == {f \in dir : Contains(f, BACKUP)}
KthSmallest(S, k) == CHOOSE x \in S : Cardinality({y \in S : y < x}) = k
Largest(S) == CHOOSE x \in S : \A y \in S : y <= x

\* C1: with a cadence N > 0, the k-th intermediate save since construction
\* writes the numbered snapshot exactly when k is a multiple of N, and the
\* rolling backup file on every other call.
C1_SnapshotWhenDue ==
    (op = "save_intermediate" /\ save_every_epoch > 0) =>
        IF save_calls % save_every_epoch = 0
        THEN written = numbered_file(saved_counter) /\ written \in files
        ELSE written = backup_file /\ written \in files

\* C2: with at least two parameter files, a load with which_network outside
\* the index range does not fail: it warns and loads the most recent one.
C2_OutOfRangeFallsBack ==
    (/\ op = "load"
     /\ Cardinality(Snapshots(files)) >= 2
     /\ \/ which >= Cardinality(Snapshots(files))
        \/ which < -Cardinality(Snapshots(files)))
    => /\ raised = "none"
       /\ warned
       /\ loaded = networks_list[Len(networks_list)]

\* C3: a load from a directory with exactly one parameter file loads that
\* file whatever which_network is; a load from a directory with none raises
\* FileNotFoundError and gives nothing to load_parameters.
C3_SingleOrEmpty ==
    op = "load" =>
        /\ Cardinality(Snapshots(files)) = 1 =>
              raised = "none" /\ loaded \in Snapshots(files)
        /\ Snapshots(files) = {} =>
              raised = "FileNotFoundError" /\ loaded = NoFile

C3_Witness ==
    /\ op = "load"
    /\ Cardinality(Snapshots(files)) = 1
    /\ which = -3
    /\ raised = "none"
    /\ loaded \in Snapshots(files)

\* C9: the directory never holds more than one backup file, and without a
\* cadence (save_every_epoch <= 0) an intermediate save leaves exactly the
\* one backup_network file, creates no numbered snapshot and keeps
\* saved_counter.
C9_RollingBackup ==
    /\ [](Cardinality(BackupFiles(files)) <= 1)
    /\ [][(op' = "save_intermediate" /\ save_every_epoch <= 0) =>
            /\ BackupFiles(files') = {backup_file}
            /\ written' = backup_file
            /\ Snapshots(files') = Snapshots(files)
            /\ saved_counter' = saved_counter]_vars

C9_Witness ==
    /\ op = "save_intermediate"
    /\ save_every_epoch <= 0
    /\ save_calls >= 2
    /\ terminal_file \in files
    /\ BackupFiles(files) = {backup_file}

\* C10: a load indexes the parameter sets in training order: which_network = k
\* gives the numbered snapshot with the k-th smallest counter, -1 gives the
\* terminal file if it is there and else the snapshot with the highest
\* counter, and the backup file is never loaded.
C10_TrainingOrder ==
    (op = "load" /\ raised = "none") =>
        LET cs == NumberedCounters(files)
        IN  /\ loaded # backup_file
            /\ (which >= 0 /\ which < Cardinality(cs)) =>
                   loaded = numbered_file(KthSmallest(cs, which))
            /\ which = -1 =>
                   loaded = IF terminal_file \in files THEN terminal_file
                            ELSE numbered_file(Largest(cs))

----------------------------------------------------------------------------
(* Claims about normalize_data, checked under SpecNorm *)

mean == normalization[1]
scale == normalization[2]

\* a / b is below the normal range and not exact: the quotient underflows
Underflows(a, b) == Abs(a) < Abs(b) * Pow2(FPrecision - 1) /\ a % Abs(b) # 0

\* normalize then un-normalize x: no intermediate result overflows or underflows
ForwardReverseInRange(x) ==
    LET d == FSub(x, mean)
        q == FDiv(d, scale)
        r == FMul(q, scale)
    IN  /\ Finite(d) /\ Finite(q) /\ Finite(r) /\ Finite(FAdd(r, mean))
        /\ ~Underflows(d, scale)

\* un-normalize then normalize x: no intermediate result overflows or underflows
ReverseForwardInRange(x) ==
    LET r == FMul(x, scale)
        y == FAdd(r, mean)
        d == FSub(y, mean)
    IN  /\ Finite(r) /\ Finite(y) /\ Finite(d) /\ Finite(FDiv(d, scale))
        /\ ~Underflows(d, scale)

\* the two calls leave their arguments as they were
ArgumentsKept ==
    /\ stage = 0 => (data' = data /\ normalization' = normalization)
    /\ stage = 1 => (out1' = out1 /\ data' = data /\ normalization' = normalization)

\* C8 as claimed: for scale # 0 the two calls, in either order, give back
\* exactly the input array.
C8_RoundTripExact ==
    (stage = 2 /\ scale # 0) => out2 = data

\* C8 as amended: for scale # 0, when no intermediate result overflows or
\* underflows, the two calls give back every element x to within rounding
\* error: |y - x| <= 5 * 2^-FPrecision * (|x| + |mean|) for normalize then
\* un-normalize, |y - x| <= 5 * 2^-FPrecision * (|x| + |mean / scale|) for
\* un-normalize then normalize; and neither call changes its arguments.
C8_RoundTripWithinTolerance ==
    /\ [](stage = 2 /\ scale # 0 =>
            /\ out2.shape = data.shape
            /\ \A i \in 1..Len(data.flat) :
                 LET x == data.flat[i]
                     y == out2.flat[i]
                 IN  IF reverse_first
                     THEN ReverseForwardInRange(x) =>
                            Abs(y - x) * Abs(scale) * Pow2(FPrecision)
                                <= 5 * (Abs(x) * Abs(scale) + Abs(mean))
                     ELSE ForwardReverseInRange(x) =>
                            Abs(y - x) * Pow2(FPrecision) <= 5 * (Abs(x) + Abs(mean)))
    /\ [][ArgumentsKept]_vars

\* a round trip that is in range and within tolerance, and not exact
C8_Witness ==
    /\ stage = 2
    /\ scale # 0
    /\ ~reverse_first
    /\ \A i \in 1..Len(data.flat) : ForwardReverseInRange(data.flat[i])
    /\ out2 # data
    /\ \A i \in 1..Len(data.flat) :
         Abs(out2.flat[i] - data.flat[i]) * Pow2(FPrecision)
             <= 5 * (Abs(data.flat[i]) + Abs(mean))

----------------------------------------------------------------------------
(* Claims about the Exchange table, checked under SpecExchange *)

Coefs(norm) == IF norm = NoneArg THEN <<>> ELSE norm[1]
RECURSIVE Product(_)
Product(shape) == IF shape = <<>> THEN 1 ELSE Head(shape) * Product(Tail(shape))

\* C4: once link_clients(n) has sized a fresh Exchange table, the table has
\* n lines in every later state, whatever predictions and link_clients calls
\* with the same n or with None follow.
C4_RowCountIsNbClients ==
    (first_nb # -1 /\ ~other_nb) => Len(exchange) = first_nb

C4_Witness ==
    /\ first_nb = 2
    /\ ~other_nb
    /\ ex_op = "link_clients"
    /\ ex_raised = "SchemaError"
    /\ Len(exchange) = 2
    /\ \E j \in 1..Len(exchange) : exchange[j]["prediction"] # None

\* C5: a prediction for line i changes only the prediction fields of line i:
\* every other field of line i and every field of every other line keeps
\* its value, and no line is added or removed.
C5_OnlyResultFieldsOfLine ==
    [][ex_op' = "compute_online_prediction" =>
         /\ Len(exchange') = Len(exchange)
         /\ \A j \in 1..Len(exchange) :
              /\ DOMAIN exchange'[j] = DOMAIN exchange[j]
              /\ \A f \in DOMAIN exchange[j] :
                   (j # instance' \/ f \notin pred_fields) =>
                       exchange'[j][f] = exchange[j][f]]_vars

C5_Witness ==
    /\ ex_op = "compute_online_prediction"
    /\ ex_raised = "none"
    /\ instance = 1
    /\ Len(exchange) = 2
    /\ exchange[1]["prediction"] # None
    /\ exchange[1]["input"] = Array(<<2>>, <<7, 4>>)
    /\ exchange[1][WorkerField] # None
    /\ exchange[2]["input"] # None
    /\ exchange[2]["prediction"] # None
    /\ exchange[2]["prediction"] # exchange[1]["prediction"]

C7_WrittenFlat ==
    (ex_op = "compute_online_prediction" /\ ex_raised = "none") =>
        \A f \in pred_fields :
            exchange[instance][f].shape = <<Product(Tail(data_pred[f].shape))>>

====
